---- MODULE Spec2Model ----
(***************************************************************************)
(* Model of luigi_pipeline.py: the four luigi tasks DownloadData,          *)
(* ExtractFiles, DataPreprocessing, DelTempFiles under the wrapper         *)
(* CreateDataSet, run by the luigi worker with the local scheduler, and    *)
(* the table splitter ExtractFiles.separate_tables.                        *)
(*                                                                         *)
(* Text is modelled as sequences of lines, a line as a sequence of tokens  *)
(* (the characters "[" and "]", the tab "TAB", and words).  A file name is *)
(* a record [dir, stem, ext]: dir is the folder, stem the name without its *)
(* extension as a sequence of tokens, ext the extension.                   *)
(***************************************************************************)
EXTENDS Integers, Sequences, FiniteSets, TLC

VARIABLES
    proj,       \* one column projection: table, drop set, result (ProjectSpec)
    split,      \* state of one separate_tables call (SplitSpec)
    cfg,        \* task parameters and the archive the remote serves
    fs,         \* the files under dest_folder: path -> content
    dirs,       \* the directories that exist
    run,        \* number of the current invocation of luigi.run()
    pc,         \* "idle" between invocations, "work" inside one
    status,     \* per task, in this invocation: SKIP, PENDING, RUNNING, DONE, FAILED
    loc,        \* position inside the run action that is executing
    hist        \* history of this and the previous invocation (observation only)

vars == <<proj, split, cfg, fs, dirs, run, pc, status, loc, hist>>

(***************************************************************************)
(* Bounds                                                                  *)
(***************************************************************************)
MaxLines == 4       \* lines of a document given to separate_tables
MaxRuns == 2        \* invocations of the pipeline on one destination
MaxCols == 3        \* columns of a table given to drop
MaxRows == 2        \* rows of a table given to drop

(***************************************************************************)
(* Sequences helpers                                                       *)
(***************************************************************************)
Range(s) == {s[i] : i \in 1..Len(s)}

SeqsUpTo(S, n) == UNION {[1..k -> S] : k \in 0..n}

(***************************************************************************)
(* separate_tables: the table splitter                                     *)
(***************************************************************************)
\* the characters str.strip("[]\n") removes (the newline is implicit)
StripChars == {"[", "]"}

RECURSIVE LStrip(_)
LStrip(l) == IF l # <<>> /\ Head(l) \in StripChars THEN LStrip(Tail(l)) ELSE l

RECURSIVE RStrip(_)
RStrip(l) ==
    IF l # <<>> /\ l[Len(l)] \in StripChars
    THEN RStrip(SubSeq(l, 1, Len(l) - 1))
    ELSE l

\* l.strip("[]\n")
Strip(l) == RStrip(LStrip(l))

\* l.startswith("[")
StartsWithBracket(l) == l # <<>> /\ Head(l) = "["

\* write_key: None, or a string (a sequence of tokens, "" is <<>>)
None == [some |-> FALSE, v |-> <<>>]
Str(v) == [some |-> TRUE, v |-> v]

\* Python truthiness of write_key: None and "" are false
Truthy(k) == k.some /\ k.v # <<>>

\* one line split at the tabs into its cells
RECURSIVE Cells(_)
Cells(l) ==
    IF \E i \in 1..Len(l) : l[i] = "TAB"
    THEN LET i == CHOOSE j \in 1..Len(l) :
                      l[j] = "TAB" /\ \A k \in 1..(j - 1) : l[k] # "TAB"
         IN  <<SubSeq(l, 1, i - 1)>> \o Cells(SubSeq(l, i + 1, Len(l)))
    ELSE <<l>>

RECURSIVE NonBlank(_)
NonBlank(ls) ==
    IF ls = <<>> THEN <<>>
    ELSE IF Head(ls) = <<>> THEN NonBlank(Tail(ls))
         ELSE <<Head(ls)>> \o NonBlank(Tail(ls))

RowsOf(ls) == [i \in 1..Len(ls) |-> Cells(ls[i])]

\* pandas.read_csv(buffer, sep="\t", header=...): blank lines are skipped; an
\* input without any line raises EmptyDataError; header "infer" takes the
\* first line as the column names, header None numbers the columns and keeps
\* every line as a data row.
read_csv(ls, header) ==
    LET nb == NonBlank(ls) IN
    IF nb = <<>> THEN [ok |-> FALSE, named |-> FALSE, columns |-> <<>>, rows |-> <<>>]
    ELSE IF header = "infer"
         THEN [ok |-> TRUE, named |-> TRUE,
               columns |-> Cells(nb[1]), rows |-> RowsOf(Tail(nb))]
         ELSE [ok |-> TRUE, named |-> FALSE,
               columns |-> <<>>, rows |-> RowsOf(nb)]

\* dfs[key] = df on an insertion-ordered dict
DictSet(d, key, df) ==
    IF \E i \in 1..Len(d) : d[i].key = key
    THEN [i \in 1..Len(d) |-> IF d[i].key = key THEN [key |-> key, df |-> df] ELSE d[i]]
    ELSE Append(d, [key |-> key, df |-> df])

DictKeys(d) == [i \in 1..Len(d) |-> d[i].key]

\* state at the start of separate_tables (lines 113-116)
SplitStart(text) ==
    [text |-> text, i |-> 1, write_key |-> None, fio |-> <<>>, dfs |-> <<>>,
     st |-> "scan"]

\* header chosen when a label line finalizes the previous block (line 121)
HeaderAtLabel(key) == IF key = <<"Heading">> THEN "None" ELSE "infer"

\* header used by the read_csv after the loop (line 129: no header argument)
HeaderAtEnd(key) == "infer"

\* a line that starts with "[" (lines 118-125)
SplitLabel(s) ==
    LET l == s.text[s.i]
        df == read_csv(s.fio, HeaderAtLabel(s.write_key.v))
    IN  IF Truthy(s.write_key) /\ ~df.ok
        THEN [s EXCEPT !.st = "error"]
        ELSE [s EXCEPT !.dfs = IF Truthy(s.write_key)
                                THEN DictSet(s.dfs, s.write_key.v, df)
                                ELSE s.dfs,
                       !.fio = <<>>,
                       !.write_key = Str(Strip(l)),
                       !.i = s.i + 1]

\* any other line while write_key is truthy (lines 126-127)
SplitWrite(s) ==
    [s EXCEPT !.fio = Append(s.fio, s.text[s.i]), !.i = s.i + 1]

\* any other line while write_key is None or "" (line 126 false)
SplitSkip(s) == [s EXCEPT !.i = s.i + 1]

\* after the loop (lines 128-129)
SplitEnd(s) ==
    LET df == read_csv(s.fio, HeaderAtEnd(s.write_key.v)) IN
    IF ~df.ok
    THEN [s EXCEPT !.st = "error"]
    ELSE [s EXCEPT !.dfs = DictSet(s.dfs, s.write_key.v, df), !.st = "ok"]

SplitNext(s) ==
    IF s.i > Len(s.text) THEN SplitEnd(s)
    ELSE IF StartsWithBracket(s.text[s.i]) THEN SplitLabel(s)
    ELSE IF Truthy(s.write_key) THEN SplitWrite(s)
    ELSE SplitSkip(s)

RECURSIVE SplitRun(_)
SplitRun(s) == IF s.st # "scan" THEN s ELSE SplitRun(SplitNext(s))

\* the tables separate_tables builds from the lines of a file, or the error
separate_tables(text) == SplitRun(SplitStart(text))

(***************************************************************************)
(* Tables and files                                                        *)
(***************************************************************************)
Digits == <<"0", "1", "2", "3">>

RECURSIVE Join(_)
Join(cells) ==
    IF cells = <<>> THEN <<>>
    ELSE IF Len(cells) = 1 THEN cells[1]
    ELSE cells[1] \o <<"TAB">> \o Join(Tail(cells))

Max(S) == CHOOSE x \in S : \A y \in S : y <= x

Width(df) == Max({0} \cup {Len(df.rows[i]) : i \in 1..Len(df.rows)})

\* DataFrame.to_csv(path, sep="\t", index=False): a header line, then the rows
to_csv(df) ==
    LET head == IF df.named THEN df.columns
                ELSE [i \in 1..Width(df) |-> <<Digits[i]>>]
    IN  <<Join(head)>> \o [i \in 1..Len(df.rows) |-> Join(df.rows[i])]

RECURSIVE KeepIdx(_, _, _)
KeepIdx(columns, cols, i) ==
    IF i > Len(columns) THEN <<>>
    ELSE (IF columns[i] \in cols THEN <<>> ELSE <<i>>) \o KeepIdx(columns, cols, i + 1)

\* df.drop(columns=cols, errors="ignore")
\* variant: the names are removed from the header, the rows keep every cell
drop_HeaderOnly(df, cols) ==
    LET keep == KeepIdx(df.columns, cols, 1) IN
    [df EXCEPT !.columns = [k \in 1..Len(keep) |-> df.columns[keep[k]]]]

drop(df, cols) ==
    LET keep == KeepIdx(df.columns, cols, 1) IN
    [df EXCEPT !.columns = [k \in 1..Len(keep) |-> df.columns[keep[k]]],
               !.rows = [r \in 1..Len(df.rows) |->
                            [k \in 1..Len(keep) |-> df.rows[r][keep[k]]]]]

\* a file's content: its lines, and for done.txt the paths it lists
File(text) == [text |-> text, paths |-> <<>>]

Path(dir, stem, ext) == [dir |-> dir, stem |-> stem, ext |-> ext]

Put(fsys, p, c) == [q \in (DOMAIN fsys) \cup {p} |-> IF q = p THEN c ELSE fsys[q]]

Del(fsys, p) == [q \in (DOMAIN fsys) \ {p} |-> fsys[q]]

Exists(fsys, p) == p \in DOMAIN fsys

NoFiles == [q \in {} |-> File(<<>>)]

\* a filename pattern of prep_list: an exact name, or "*" with an extension
Exact(stem, ext) == [any |-> FALSE, stem |-> stem, ext |-> ext]
Star(ext) == [any |-> TRUE, stem |-> <<>>, ext |-> ext]

Match(pat, p) ==
    /\ p.ext = pat.ext
    /\ pat.any \/ p.stem = pat.stem

\* ds_dir.rglob(pattern): the files under {dest}/{data_name}, recursively
rglob(pat, fsys) == {p \in DOMAIN fsys : p.dir # "dest" /\ Match(pat, p)}

\* variant: the suffix is forgotten and the table is written over its source
Preprocessed_InPlace(p) == p

\* os.path.splitext(fl), then f"{name}_preprocessed{ext}"
Preprocessed(p) == [p EXCEPT !.stem = Append(@, "_preprocessed")]

(***************************************************************************)
(* The tasks, their outputs and requirements                               *)
(***************************************************************************)
Tasks == {"DownloadData", "ExtractFiles", "DataPreprocessing", "DelTempFiles",
          "CreateDataSet"}

Stages == <<"DownloadData", "ExtractFiles", "DataPreprocessing", "DelTempFiles">>

StageNo(t) == CHOOSE i \in 1..4 : Stages[i] = t

Tar == Path("dest", <<"ds">>, "tar")
ExtractsTxt == Path("ds", <<"extracts">>, "txt")
DoneTxt == Path("ds", <<"done">>, "txt")

DownloadData_output == {Tar}

ExtractFiles_output == {ExtractsTxt}

DataPreprocessing_output(c, fsys) ==
    UNION {{Preprocessed(f) : f \in rglob(c.prep_list[i], fsys)} :
              i \in 1..Len(c.prep_list)}

DelTempFiles_output == {DoneTxt}

output(t, c, fsys) ==
    CASE t = "DownloadData" -> DownloadData_output
      [] t = "ExtractFiles" -> ExtractFiles_output
      [] t = "DataPreprocessing" -> DataPreprocessing_output(c, fsys)
      [] t = "DelTempFiles" -> DelTempFiles_output
      [] OTHER -> {}

requires(t) ==
    CASE t = "ExtractFiles" -> {"DownloadData"}
      [] t = "DataPreprocessing" -> {"ExtractFiles"}
      [] t = "DelTempFiles" -> {"DataPreprocessing"}
      [] t = "CreateDataSet" -> {"DelTempFiles"}
      [] OTHER -> {}

\* LocalTarget.exists(): os.path.exists(path)
TargetExists(fsys, p) == Exists(fsys, p)

\* luigi Task.complete(): a task without outputs is never complete, otherwise
\* every output target exists; WrapperTask.complete(): every required task is
RECURSIVE complete(_, _, _)
complete(t, c, fsys) ==
    IF t = "CreateDataSet"
    THEN \A d \in requires(t) : complete(d, c, fsys)
    ELSE /\ output(t, c, fsys) # {}
         /\ \A p \in output(t, c, fsys) : TargetExists(fsys, p)

(***************************************************************************)
(* Inputs: the archive served by the remote, the task parameters, and the  *)
(* destination folder as the first invocation finds it                     *)
(***************************************************************************)
DocProbes ==
    << <<"[", "Heading", "]">>, <<"Probe_Id">>,
       <<"[", "Probes", "]">>, <<"Probe_Id", "TAB", "Definition">>,
       <<"P1", "TAB", "foo">> >>

DocControls ==
    << <<"[", "Controls", "]">>, <<"Probe_Id">>, <<"C1">> >>

\* a member without any label line
DocPlain == << <<"Probe_Id">> >>

Member(stem, gz, text) == [stem |-> stem, gz |-> gz, text |-> text]

Archives ==
    { << Member("A", TRUE, DocProbes) >>,
      << Member("readme", FALSE, DocPlain), Member("A", TRUE, DocProbes),
         Member("B", TRUE, DocControls) >>,
      << Member("A", TRUE, DocProbes), Member("B", TRUE, DocPlain) >> }

PrepLists ==
    { << Exact(<<"Probes">>, "tsv") >>,
      << Exact(<<"Samples">>, "tsv") >>,
      << Exact(<<"extracts">>, "txt") >>,
      << Star("tsv") >> }

ColsForDrop == { {<<"Definition">>} }

Configs ==
    [archive : Archives, prep_list : PrepLists, cols_fordrop : ColsForDrop]

\* dest_folder as the first invocation finds it: empty, or holding a dataset
\* folder with an extracts.txt of size 0 (the pipeline itself never writes an
\* empty marker: its targets are renamed into place with their content)
InitFiles == {NoFiles, Put(NoFiles, ExtractsTxt, File(<<>>))}

DirsOf(fsys) == IF fsys = NoFiles THEN {} ELSE {"dest", "ds"}

MarkerText ==
    << <<"Base archive is in the folder: ds">>,
       <<"Tables are extracted from files and written in separate .tsv files">> >>

TarFile == File(<< <<"tar">> >>)

DoneFile(deleted) ==
    [text |-> << <<"Pipeline completed.">>, <<" Temporary files deleted:">> >>,
     paths |-> deleted]

(***************************************************************************)
(* State of the worker                                                     *)
(***************************************************************************)
\* a table as read_csv returns it for a file with a header line
Table(columns, rows) ==
    [ok |-> TRUE, named |-> TRUE, columns |-> columns, rows |-> rows]

NoProj == [df |-> Table(<<>>, <<>>), cols |-> {}, out |-> Table(<<>>, <<>>),
           st |-> "none"]

NoLoc ==
    [step |-> "none", n |-> 0, todo |-> {}, dfs |-> <<>>, cur |-> Tar,
     deleted |-> <<>>]

At(step) == [NoLoc EXCEPT !.step = step]

NoTouch == [t \in Range(Stages) |-> {}]

NoPrev == [ran |-> FALSE, started |-> <<>>, failed |-> "none", kind |-> "none"]

NoHist ==
    [started |-> <<>>, failed |-> "none", kind |-> "none", gets |-> 0,
     code |-> 0, touched |-> NoTouch, fs0 |-> NoFiles, fsB |-> NoFiles,
     prev |-> NoPrev, okRun |-> 0]

Running == {t \in Tasks : status[t] = "RUNNING"}

IsAt(t, step) == pc = "work" /\ status[t] = "RUNNING" /\ loc.step = step

Touch(h, t, p) == [h EXCEPT !.touched[t] = @ \cup {p}]

Failed(h, t, kind) == [h EXCEPT !.failed = t, !.kind = kind]

\* Worker.add: a task is checked only when every task that depends on it is
\* incomplete; a complete task is not expanded
RECURSIVE Visited(_, _, _)
Visited(t, c, fsys) ==
    \/ t = "CreateDataSet"
    \/ \E u \in Tasks : /\ t \in requires(u)
                        /\ Visited(u, c, fsys)
                        /\ ~complete(u, c, fsys)

Schedule(c, fsys) ==
    [t \in Tasks |->
        IF ~Visited(t, c, fsys) THEN "NONE"
        ELSE IF complete(t, c, fsys) THEN "SKIP" ELSE "PENDING"]

\* the scheduler hands out a pending task once its requirements are done
\* variant: a failed task is handed out again in the same invocation
Runnable_Retry(t) ==
    /\ status[t] \in {"PENDING", "FAILED"}
    /\ \A d \in requires(t) : status[d] \in {"DONE", "SKIP"}

Runnable(t) ==
    /\ status[t] = "PENDING"
    /\ \A d \in requires(t) : status[d] \in {"DONE", "SKIP"}

\* variant: the check of the requirements before run() is left out
Unfulfilled_Unchecked(t, c, fsys) == {}

\* TaskProcess.run: the requirements are checked again right before run()
Unfulfilled(t, c, fsys) == {d \in requires(t) : ~complete(d, c, fsys)}

FirstStep(t) ==
    CASE t = "DownloadData" -> "get"
      [] t = "ExtractFiles" -> "mkdir"
      [] t = "DataPreprocessing" -> "scan"
      [] t = "DelTempFiles" -> "tar"
      [] OTHER -> "none"

(***************************************************************************)
(* The pipeline: one invocation of luigi.run() after another               *)
(***************************************************************************)
Init ==
    /\ proj = NoProj
    /\ split = SplitStart(<<>>)
    /\ cfg \in Configs
    /\ fs \in InitFiles
    /\ dirs = DirsOf(fs)
    /\ run = 0
    /\ pc = "idle"
    /\ status = [t \in Tasks |-> "NONE"]
    /\ loc = NoLoc
    /\ hist = NoHist

\* luigi.run(): the worker adds CreateDataSet and what it requires
StartRun ==
    /\ pc = "idle"
    /\ run < MaxRuns
    /\ run' = run + 1
    /\ pc' = "work"
    /\ status' = Schedule(cfg, fs)
    /\ loc' = NoLoc
    /\ hist' = [NoHist EXCEPT !.fs0 = fs, !.prev = hist.prev, !.okRun = hist.okRun]
    /\ UNCHANGED <<proj, split, cfg, fs, dirs>>

\* the worker takes the next task; run() starts only with fulfilled requirements
Begin(t) ==
    /\ pc = "work"
    /\ Running = {}
    /\ Runnable(t)
    /\ IF Unfulfilled(t, cfg, fs) # {}
       THEN /\ status' = [status EXCEPT ![t] = "FAILED"]
            /\ hist' = Failed(hist, t, "dep")
            /\ loc' = NoLoc
       ELSE IF t = "CreateDataSet"
       THEN /\ status' = [status EXCEPT ![t] = "DONE"]
            /\ UNCHANGED <<hist, loc>>
       ELSE /\ status' = [status EXCEPT ![t] = "RUNNING"]
            /\ hist' = [hist EXCEPT !.started = Append(@, t), !.fsB = fs]
            /\ loc' = At(FirstStep(t))
    /\ UNCHANGED <<proj, split, cfg, fs, dirs, run, pc>>

Finish(t) == status' = [status EXCEPT ![t] = "DONE"] /\ loc' = NoLoc

\* variant: the failure is swallowed and the task is reported as done
Abort_Swallowed(t, kind, h) ==
    /\ status' = [status EXCEPT ![t] = "DONE"]
    /\ loc' = NoLoc
    /\ hist' = Failed(h, t, kind)

Abort(t, kind, h) ==
    /\ status' = [status EXCEPT ![t] = "FAILED"]
    /\ loc' = NoLoc
    /\ hist' = Failed(h, t, kind)

\* an I/O error or an interrupt at the current point of the running action
Fail ==
    /\ pc = "work"
    /\ \E t \in Running : Abort(t, "io", hist)
    /\ UNCHANGED <<proj, split, cfg, fs, dirs, run, pc>>

\* variant: every status from 200 upwards is accepted
StatusOk_From200(code) == code >= 200

\* response.status_code == 200
StatusOk(code) == code = 200

\* DownloadData.run: requests.get and the status check
DownloadGet ==
    /\ IsAt("DownloadData", "get")
    /\ \E code \in {200, 404} :
          IF StatusOk(code)
          THEN /\ loc' = At("save")
               /\ hist' = [hist EXCEPT !.gets = @ + 1, !.code = code]
               /\ UNCHANGED status
          ELSE Abort("DownloadData", "status",
                     [hist EXCEPT !.gets = @ + 1, !.code = code])
    /\ UNCHANGED <<proj, split, cfg, fs, dirs, run, pc>>

\* DownloadData.run: makedirs, then the archive is written to a temporary
\* file that is renamed to the target when it is closed
DownloadSave ==
    /\ IsAt("DownloadData", "save")
    /\ dirs' = dirs \cup {"dest"}
    /\ fs' = Put(fs, Tar, TarFile)
    /\ hist' = Touch(hist, "DownloadData", Tar)
    /\ Finish("DownloadData")
    /\ UNCHANGED <<proj, split, cfg, run, pc>>

\* the folder and the decompressed file of a member: name[:-7] and name[:-3]
MemberTxt(m) == Path(m.stem, <<m.stem>>, "txt")

\* Path(fname).parent / f"{key}.tsv"
TableFile(m, key) == Path(m.stem, key, "tsv")

\* variant: extracts.txt is written before the members are processed
ExtractMkdir_MarkerFirst ==
    /\ IsAt("ExtractFiles", "mkdir")
    /\ dirs' = dirs \cup {"dest", "ds"}
    /\ fs' = Put(fs, ExtractsTxt, File(MarkerText))
    /\ hist' = Touch(hist, "ExtractFiles", ExtractsTxt)
    /\ loc' = [At("member") EXCEPT !.n = 1]
    /\ UNCHANGED <<proj, split, cfg, run, pc, status>>

\* ExtractFiles.run: makedirs(ds_dir) and tarfile.open
ExtractMkdir ==
    /\ IsAt("ExtractFiles", "mkdir")
    /\ dirs' = dirs \cup {"dest", "ds"}
    /\ loc' = [At("member") EXCEPT !.n = 1]
    /\ UNCHANGED <<proj, split, cfg, fs, run, pc, status, hist>>

\* a member that is no regular file named *.gz is passed over
ExtractSkipMember ==
    /\ IsAt("ExtractFiles", "member")
    /\ loc.n <= Len(cfg.archive)
    /\ ~cfg.archive[loc.n].gz
    /\ loc' = [loc EXCEPT !.n = @ + 1]
    /\ UNCHANGED <<proj, split, cfg, fs, dirs, run, pc, status, hist>>

\* makedirs(folder_name) and open(output_path, "wb")
ExtractOpenMember ==
    /\ IsAt("ExtractFiles", "member")
    /\ loc.n <= Len(cfg.archive)
    /\ cfg.archive[loc.n].gz
    /\ LET m == cfg.archive[loc.n] IN
          /\ dirs' = dirs \cup {m.stem}
          /\ fs' = Put(fs, MemberTxt(m), File(<<>>))
          /\ hist' = Touch(hist, "ExtractFiles", MemberTxt(m))
    /\ loc' = [loc EXCEPT !.step = "gunzip"]
    /\ UNCHANGED <<proj, split, cfg, run, pc, status>>

\* f_out.write(f_in.read())
ExtractWriteMember ==
    /\ IsAt("ExtractFiles", "gunzip")
    /\ LET m == cfg.archive[loc.n] IN
          fs' = Put(fs, MemberTxt(m), File(m.text))
    /\ loc' = [loc EXCEPT !.step = "split"]
    /\ UNCHANGED <<proj, split, cfg, dirs, run, pc, status, hist>>

\* separate_tables(output_path): the scan of the file
ExtractSplit ==
    /\ IsAt("ExtractFiles", "split")
    /\ LET m == cfg.archive[loc.n]
           r == separate_tables(fs[MemberTxt(m)].text)
       IN  IF r.st = "ok"
           THEN /\ loc' = [loc EXCEPT !.step = "save", !.dfs = r.dfs]
                /\ UNCHANGED <<status, hist>>
           ELSE Abort("ExtractFiles", "parse", hist)
    /\ UNCHANGED <<proj, split, cfg, fs, dirs, run, pc>>

\* separate_tables: df.to_csv(output_file) for the next entry of dfs (a
\* table file is read by later stages only once extracts.txt exists, so its
\* open and its write are one step)
ExtractSaveTable ==
    /\ IsAt("ExtractFiles", "save")
    /\ LET m == cfg.archive[loc.n]
           e == Head(loc.dfs)
           f == TableFile(m, e.key)
       IN  /\ fs' = Put(fs, f, File(to_csv(e.df)))
           /\ hist' = Touch(hist, "ExtractFiles", f)
    /\ loc' = IF Tail(loc.dfs) = <<>>
              THEN [loc EXCEPT !.step = "member", !.n = @ + 1, !.dfs = <<>>]
              ELSE [loc EXCEPT !.dfs = Tail(@)]
    /\ UNCHANGED <<proj, split, cfg, dirs, run, pc, status>>

\* after the last member: extracts.txt is written and renamed into place
ExtractMarker ==
    /\ IsAt("ExtractFiles", "member")
    /\ loc.n > Len(cfg.archive)
    /\ fs' = Put(fs, ExtractsTxt, File(MarkerText))
    /\ hist' = Touch(hist, "ExtractFiles", ExtractsTxt)
    /\ Finish("ExtractFiles")
    /\ UNCHANGED <<proj, split, cfg, dirs, run, pc>>

\* DataPreprocessing.run: list(ds_dir.rglob(pattern)) for the next pattern
PreprocessScan ==
    /\ IsAt("DataPreprocessing", "scan")
    /\ IF loc.n + 1 > Len(cfg.prep_list)
       THEN Finish("DataPreprocessing")
       ELSE /\ loc' = LET found == rglob(cfg.prep_list[loc.n + 1], fs) IN
                      [loc EXCEPT !.n = @ + 1, !.todo = found,
                                  !.step = IF found = {} THEN "scan" ELSE "files"]
            /\ UNCHANGED status
    /\ UNCHANGED <<proj, split, cfg, fs, dirs, run, pc, hist>>

\* read_csv of the next file found, drop, and to_csv opening the new file
PreprocessOpen ==
    /\ IsAt("DataPreprocessing", "files")
    /\ \E fl \in loc.todo :
          LET df == read_csv(fs[fl].text, "infer") IN
          IF df.ok
          THEN /\ fs' = Put(fs, Preprocessed(fl), File(<<>>))
               /\ hist' = Touch(hist, "DataPreprocessing", Preprocessed(fl))
               /\ loc' = [loc EXCEPT !.step = "write", !.cur = fl]
               /\ UNCHANGED status
          ELSE /\ Abort("DataPreprocessing", "parse", hist)
               /\ UNCHANGED fs
    /\ UNCHANGED <<proj, split, cfg, dirs, run, pc>>

\* to_csv writing the table without the dropped columns
PreprocessWrite ==
    /\ IsAt("DataPreprocessing", "write")
    /\ LET fl == loc.cur
           df == read_csv(fs[fl].text, "infer")
           df_prep == drop(df, cfg.cols_fordrop)
           rest == loc.todo \ {fl}
       IN  /\ fs' = Put(fs, Preprocessed(fl), File(to_csv(df_prep)))
           /\ loc' = [loc EXCEPT !.todo = rest,
                                 !.step = IF rest = {} THEN "scan" ELSE "files"]
    /\ UNCHANGED <<proj, split, cfg, dirs, run, pc, status, hist>>

\* variant: the archive is removed but not appended to del_files
CleanupTar_Unlogged ==
    /\ IsAt("DelTempFiles", "tar")
    /\ IF Exists(fs, Tar)
       THEN /\ fs' = Del(fs, Tar)
            /\ hist' = Touch(hist, "DelTempFiles", Tar)
       ELSE UNCHANGED <<fs, hist>>
    /\ loc' = [loc EXCEPT !.step = "txt"]
    /\ UNCHANGED <<proj, split, cfg, dirs, run, pc, status>>

\* DelTempFiles.run: the archive is removed when it exists
CleanupTar ==
    /\ IsAt("DelTempFiles", "tar")
    /\ IF Exists(fs, Tar)
       THEN /\ fs' = Del(fs, Tar)
            /\ loc' = [loc EXCEPT !.step = "txt", !.deleted = Append(@, Tar)]
            /\ hist' = Touch(hist, "DelTempFiles", Tar)
       ELSE /\ loc' = [loc EXCEPT !.step = "txt"]
            /\ UNCHANGED <<fs, hist>>
    /\ UNCHANGED <<proj, split, cfg, dirs, run, pc, status>>

\* the next file of ds_dir.rglob("*.txt") is removed
CleanupTxt ==
    /\ IsAt("DelTempFiles", "txt")
    /\ \E txt_file \in rglob(Star("txt"), fs) :
          /\ fs' = Del(fs, txt_file)
          /\ loc' = [loc EXCEPT !.deleted = Append(@, txt_file)]
          /\ hist' = Touch(hist, "DelTempFiles", txt_file)
    /\ UNCHANGED <<proj, split, cfg, dirs, run, pc, status>>

\* variant: the log is written before the sweep of the .txt files, which
\* removes it again
CleanupLog_Swept ==
    /\ IsAt("DelTempFiles", "txt")
    /\ rglob(Star("txt"), fs) = {}
    /\ hist' = Touch(hist, "DelTempFiles", DoneTxt)
    /\ Finish("DelTempFiles")
    /\ UNCHANGED <<proj, split, cfg, fs, dirs, run, pc>>

\* done.txt is written with the deleted paths and renamed into place
CleanupLog ==
    /\ IsAt("DelTempFiles", "txt")
    /\ rglob(Star("txt"), fs) = {}
    /\ fs' = Put(fs, DoneTxt, DoneFile(loc.deleted))
    /\ hist' = Touch(hist, "DelTempFiles", DoneTxt)
    /\ Finish("DelTempFiles")
    /\ UNCHANGED <<proj, split, cfg, dirs, run, pc>>

\* the stages whose run action ran to its end in this invocation
Succeeded == {t \in Range(Stages) : status[t] = "DONE"}

\* the worker stops when the scheduler has no task left to hand out
EndRun ==
    /\ pc = "work"
    /\ Running = {}
    /\ \A t \in Tasks : ~Runnable(t)
    /\ pc' = "idle"
    /\ hist' = [hist EXCEPT
                  !.prev = [ran |-> TRUE, started |-> hist.started,
                            failed |-> hist.failed, kind |-> hist.kind],
                  !.okRun = IF @ = 0 /\ Succeeded = Range(Stages) THEN run ELSE @]
    /\ UNCHANGED <<proj, split, cfg, fs, dirs, run, status, loc>>

Next ==
    \/ StartRun
    \/ \E t \in Tasks : Begin(t)
    \/ Fail
    \/ DownloadGet
    \/ DownloadSave
    \/ ExtractMkdir
    \/ ExtractSkipMember
    \/ ExtractOpenMember
    \/ ExtractWriteMember
    \/ ExtractSplit
    \/ ExtractSaveTable
    \/ ExtractMarker
    \/ PreprocessScan
    \/ PreprocessOpen
    \/ PreprocessWrite
    \/ CleanupTar
    \/ CleanupTxt
    \/ CleanupLog
    \/ EndRun

Spec == Init /\ [][Next]_vars

(***************************************************************************)
(* The table splitter alone: one separate_tables call, line by line        *)
(***************************************************************************)
LineSet ==
    { <<"[", "Heading", "]">>, <<"[", "A", "]">>, <<"[", "]">>,
      <<"x">>, <<"y">>, <<>> }

SplitInit ==
    /\ proj = NoProj
    /\ split \in {SplitStart(text) : text \in SeqsUpTo(LineSet, MaxLines)}
    /\ cfg = CHOOSE c \in Configs : TRUE
    /\ fs = NoFiles
    /\ dirs = {}
    /\ run = 0
    /\ pc = "idle"
    /\ status = [t \in Tasks |-> "NONE"]
    /\ loc = NoLoc
    /\ hist = NoHist

Scanning == split.st = "scan" /\ split.i <= Len(split.text)

ReadLabel ==
    /\ Scanning
    /\ StartsWithBracket(split.text[split.i])
    /\ split' = SplitLabel(split)
    /\ UNCHANGED <<proj, cfg, fs, dirs, run, pc, status, loc, hist>>

ReadWrite ==
    /\ Scanning
    /\ ~StartsWithBracket(split.text[split.i])
    /\ Truthy(split.write_key)
    /\ split' = SplitWrite(split)
    /\ UNCHANGED <<proj, cfg, fs, dirs, run, pc, status, loc, hist>>

ReadSkip ==
    /\ Scanning
    /\ ~StartsWithBracket(split.text[split.i])
    /\ ~Truthy(split.write_key)
    /\ split' = SplitSkip(split)
    /\ UNCHANGED <<proj, cfg, fs, dirs, run, pc, status, loc, hist>>

ReadEnd ==
    /\ split.st = "scan"
    /\ split.i > Len(split.text)
    /\ split' = SplitEnd(split)
    /\ UNCHANGED <<proj, cfg, fs, dirs, run, pc, status, loc, hist>>

SplitStep == ReadLabel \/ ReadWrite \/ ReadSkip \/ ReadEnd

SplitSpec == SplitInit /\ [][SplitStep]_vars

(***************************************************************************)
(* Properties of the table splitter                                        *)
(***************************************************************************)
\* the label lines of a document, in order, without their brackets
RECURSIVE LabelsOf(_)
LabelsOf(text) ==
    IF text = <<>> THEN <<>>
    ELSE (IF StartsWithBracket(Head(text)) THEN <<Strip(Head(text))>> ELSE <<>>)
         \o LabelsOf(Tail(text))

\* the document is a concatenation of labelled blocks: it starts with a label
NoPreamble(text) == text # <<>> /\ StartsWithBracket(text[1])

\* the lines that follow the label line at position i, up to the next label
RECURSIVE BlockAfter(_, _)
BlockAfter(text, i) ==
    IF i + 1 > Len(text) \/ StartsWithBracket(text[i + 1]) THEN <<>>
    ELSE <<text[i + 1]>> \o BlockAfter(text, i + 1)

\* position of the last label line that names key
LastLabel(text, key) ==
    Max({i \in 1..Len(text) : StartsWithBracket(text[i]) /\ Strip(text[i]) = key})

SplitDone == split.st # "scan"

\* C4: a document of N labelled blocks and no preamble yields exactly N
\* tables, keyed by the labels in document order, the last block included.
C4_SplitCompleteness ==
    (SplitDone /\ NoPreamble(split.text)) =>
        /\ split.st = "ok"
        /\ Len(split.dfs) = Len(LabelsOf(split.text))
        /\ DictKeys(split.dfs) = LabelsOf(split.text)

\* C5: a block labelled Heading is parsed without a header row, every other
\* block takes its first line as the column names, whether the block is
\* closed by a following label line or by the end of the input.
C5_HeadingIsHeaderless ==
    split.st = "ok" =>
        \A k \in 1..Len(split.dfs) :
            LET key == split.dfs[k].key
                df == split.dfs[k].df
                b == NonBlank(BlockAfter(split.text, LastLabel(split.text, key)))
            IN  IF key = <<"Heading">>
                THEN ~df.named /\ df.rows = RowsOf(b)
                ELSE df.named /\ df.columns = Cells(b[1]) /\ df.rows = RowsOf(Tail(b))

(***************************************************************************)
(* Column projection on its own: DataPreprocessing.run, line 180           *)
(***************************************************************************)
ColNames == {<<"A">>, <<"B">>, <<"C">>}
DropNames == ColNames \cup {<<"NotAColumn">>}
CellValues == {<<"u">>, <<"v">>}

\* headers without repeated names, as read_csv makes them
Headers ==
    {h \in SeqsUpTo(ColNames, MaxCols) :
        \A i, j \in 1..Len(h) : h[i] = h[j] => i = j}

RowsFor(h) == SeqsUpTo([1..Len(h) -> CellValues], MaxRows)

ProjInit ==
    /\ \E h \in Headers : \E rows \in RowsFor(h) : \E cols \in SUBSET DropNames :
          proj = [df |-> Table(h, rows), cols |-> cols, out |-> Table(h, rows),
                  st |-> "in"]
    /\ split = SplitStart(<<>>)
    /\ cfg = CHOOSE c \in Configs : TRUE
    /\ fs = NoFiles
    /\ dirs = {}
    /\ run = 0
    /\ pc = "idle"
    /\ status = [t \in Tasks |-> "NONE"]
    /\ loc = NoLoc
    /\ hist = NoHist

\* df.drop(columns=list(self.cols_fordrop), errors="ignore")
Project ==
    /\ proj.st = "in"
    /\ proj' = [proj EXCEPT !.out = drop(proj.df, proj.cols), !.st = "out"]
    /\ UNCHANGED <<split, cfg, fs, dirs, run, pc, status, loc, hist>>

ProjectSpec == ProjInit /\ [][Project]_vars

(***************************************************************************)
(* Properties of the pipeline                                              *)
(***************************************************************************)
Later(t, u) == StageNo(t) > StageNo(u)

\* a stage failed in the invocation that hist describes
StageFailed == hist.failed \in Range(Stages)

\* C1: once an invocation had Download, Extract, Preprocess and Cleanup all
\* succeed, a further invocation with the same parameters starts no run
\* action and leaves every file as it found it.
C1_IdempotentRerun ==
    (hist.okRun > 0 /\ run > hist.okRun) =>
        /\ hist.started = <<>>
        /\ fs = hist.fs0

\* C1 witness: the invocation after a fully successful one has ended
C1_SecondRunDone ==
    /\ hist.okRun = 1
    /\ run = 2
    /\ pc = "idle"
    /\ Exists(fs, DoneTxt)

\* C2: when a stage fails, no later stage of the chain starts its run action
\* in that invocation, and no output file of a later stage is created by it.
C2_FailFast ==
    StageFailed =>
        \A t \in Range(Stages) :
            Later(t, hist.failed) =>
                /\ t \notin Range(hist.started)
                /\ hist.touched[t] = {}
                /\ \A p \in output(t, cfg, fs) :
                      Exists(fs, p) => (Exists(hist.fs0, p) /\ fs[p] = hist.fs0[p])

\* C2 witness: Extract failed on a member without a label and the invocation
\* ended with the archive on disk
C2_ExtractFailedRunOver ==
    /\ hist.failed = "ExtractFiles"
    /\ hist.kind = "parse"
    /\ pc = "idle"
    /\ Exists(fs, Tar)

\* C9: when the retrieval returns a status other than 200, Download fails,
\* the archive is not created, the retrieval is not attempted a second time
\* and no other stage runs in that invocation.
C9_DownloadFailed ==
    (hist.code # 0 /\ hist.code # 200) =>
        /\ status["DownloadData"] = "FAILED"
        /\ hist.failed = "DownloadData"
        /\ ~Exists(fs, Tar)
        /\ hist.gets = 1
        /\ hist.started = <<"DownloadData">>
        /\ Running = {}

\* C9 witness: the invocation ended after a 404, Extract still pending
C9_RunOverAfter404 ==
    /\ hist.code = 404
    /\ pc = "idle"
    /\ status["ExtractFiles"] = "PENDING"

MarkerInvalid(fsys) == ~Exists(fsys, ExtractsTxt) \/ fsys[ExtractsTxt].text = <<>>

\* C3: while the dataset folder exists and extracts.txt is absent or empty,
\* Extract counts as incomplete, and an invocation that starts in such a
\* state does not skip Extract as already complete.
C3_SentinelDecidesCompleteness ==
    /\ ("ds" \in dirs /\ MarkerInvalid(fs)) => ~complete("ExtractFiles", cfg, fs)
    /\ (pc = "work" /\ MarkerInvalid(hist.fs0)) => status["ExtractFiles"] # "SKIP"

\* C7: after the run action of a stage failed or was interrupted, that stage
\* is incomplete: some declared output of it does not exist.
C7_FailedStageIncomplete ==
    (StageFailed /\ hist.kind # "dep") => ~complete(hist.failed, cfg, fs)

\* C8: in the invocation that follows one stopped by the failure of the run
\* action of stage k, no stage before k starts its run action.
C8_ResumeAtFailedStage ==
    (pc = "work" /\ hist.prev.failed \in Range(Stages) /\ hist.prev.kind # "dep") =>
        \A i \in 1..Len(hist.started) : ~Later(hist.prev.failed, hist.started[i])

\* every declared output of the stages that t requires exists
InputsExist(t) ==
    \A d \in requires(t) : \A p \in output(d, cfg, fs) : Exists(fs, p)

StartedInOrder ==
    \A i, j \in 1..Len(hist.started) :
        i < j => Later(hist.started[j], hist.started[i])

\* C6: a run action starts only while every declared output of the stage
\* before it exists, and otherwise the stage fails without running; the run
\* actions of one invocation start in chain order and never overlap.
C6_StartsWithInputs ==
    /\ [](Cardinality(Running) <= 1 /\ StartedInOrder)
    /\ [][\A t \in Range(Stages) :
            /\ (status[t] # "RUNNING" /\ status'[t] = "RUNNING") => InputsExist(t)
            /\ (status[t] = "PENDING" /\ status'[t] # "PENDING" /\ ~InputsExist(t)) =>
                  (status'[t] = "FAILED" /\ hist'.started = hist.started)]_vars

\* C6 witness: Cleanup runs as the fourth run action of one invocation
C6_CleanupRunsLast ==
    /\ hist.started = Stages
    /\ status["DelTempFiles"] = "RUNNING"
    /\ InputsExist("DelTempFiles")

\* the stage that produces a path, by the shape of its name
ProducedBy(p) ==
    IF p = Tar THEN "DownloadData"
    ELSE IF p = DoneTxt THEN "DelTempFiles"
    ELSE IF p.stem # <<>> /\ p.stem[Len(p.stem)] = "_preprocessed"
         THEN "DataPreprocessing"
    ELSE "ExtractFiles"

\* C10 as stated: the sets of paths the four stages create, overwrite or
\* delete in one invocation are pairwise disjoint, and no stage touches a
\* path that an upstream stage produces.
C10_ExclusivePaths ==
    /\ \A t, u \in Range(Stages) :
          t # u => hist.touched[t] \cap hist.touched[u] = {}
    /\ \A t \in Range(Stages) : \A p \in hist.touched[t] :
          ~Later(t, ProducedBy(p))

\* C10 amended: Download, Extract and Preprocess touch only paths of their
\* own, so their path sets are pairwise disjoint; Cleanup creates done.txt
\* only, and the upstream paths it touches are the archive and .txt files,
\* which it deletes.
C10_OwnPathsExceptCleanup ==
    /\ \A t \in Range(Stages) : \A p \in hist.touched[t] :
          \/ ProducedBy(p) = t
          \/ t = "DelTempFiles" /\ (p = Tar \/ p.ext = "txt") /\ ~Exists(fs, p)
    /\ \A t, u \in Range(Stages) \ {"DelTempFiles"} :
          t # u => hist.touched[t] \cap hist.touched[u] = {}

\* C10 witness: all four stages ran and Cleanup removed the archive and the
\* marker written in the same invocation
C10_CleanupDeletedUpstream ==
    /\ hist.touched["DownloadData"] = {Tar}
    /\ ExtractsTxt \in hist.touched["ExtractFiles"]
    /\ hist.touched["DataPreprocessing"] # {}
    /\ {Tar, ExtractsTxt, DoneTxt} \subseteq hist.touched["DelTempFiles"]
    /\ status["DelTempFiles"] = "DONE"

\* the paths Cleanup removed in this invocation
CleanupRemoved == hist.touched["DelTempFiles"] \ {DoneTxt}

\* C11: once Cleanup's run action has succeeded, the archive is gone, the
\* only .txt file under the dataset folder is done.txt, and done.txt lists
\* exactly the paths this run action removed, each once.
C11_CleanupResult ==
    status["DelTempFiles"] = "DONE" =>
        /\ ~Exists(fs, Tar)
        /\ rglob(Star("txt"), fs) = {DoneTxt}
        /\ Range(fs[DoneTxt].paths) = CleanupRemoved
        /\ Len(fs[DoneTxt].paths) = Cardinality(CleanupRemoved)
        /\ \A p \in CleanupRemoved : Exists(hist.fs0, p) \/ p \in
              UNION {hist.touched[t] : t \in Range(Stages) \ {"DelTempFiles"}}

\* C11 witness: Cleanup succeeded after removing the archive, the marker and
\* a decompressed member
C11_CleanupLoggedThree ==
    /\ status["DelTempFiles"] = "DONE"
    /\ Len(fs[DoneTxt].paths) >= 3
    /\ fs[DoneTxt].paths[1] = Tar
    /\ ExtractsTxt \in Range(fs[DoneTxt].paths)

\* a finished stage one of whose declared outputs is not on disk
MissingOutput(t) ==
    status[t] = "DONE" /\ \E p \in output(t, cfg, fs) : ~Exists(fs, p)

\* the same, while no later stage has run that could have removed it
Unproduced(t) ==
    MissingOutput(t) /\ \A u \in Range(hist.started) : ~Later(u, t)

\* C12: when a run action has returned and a declared output of its stage
\* is missing, no later stage starts its run action, and the invocation
\* ends as a failed one.
C12_MissingOutputStopsRun ==
    /\ []((pc = "idle" /\ \E t \in Range(Stages) : Unproduced(t))
            => hist.failed # "none")
    /\ [][\A u \in Range(Stages) :
            (u \notin Range(hist.started) /\ u \in Range(hist.started'))
                => \A t \in Range(Stages) : Later(u, t) => ~MissingOutput(t)]_vars

\* C12 witness: Preprocess returned, a sibling it declares is absent, and
\* the invocation ended with Cleanup refused
C12_PreprocessOutputAbsent ==
    /\ pc = "idle"
    /\ Unproduced("DataPreprocessing")
    /\ hist.failed = "DelTempFiles"
    /\ "DelTempFiles" \notin Range(hist.started)

\* the document from its first label line on
RECURSIVE WithoutPreamble(_)
WithoutPreamble(text) ==
    IF text = <<>> \/ StartsWithBracket(Head(text)) THEN text
    ELSE WithoutPreamble(Tail(text))

\* C13: lines before the first label line are discarded: they never make
\* the splitter fail and never reach a table, so the result is the one of
\* the document without them, and a document without any label line gives
\* no table and no error.
C13_PreambleDiscarded ==
    SplitDone =>
        /\ LabelsOf(split.text) = <<>> => (split.st = "ok" /\ split.dfs = <<>>)
        /\ LET r == separate_tables(WithoutPreamble(split.text))
           IN  split.st = r.st /\ split.dfs = r.dfs

\* the part of C13 about documents that do have a label line
C13_PreambleIgnoredBeforeLabel ==
    (SplitDone /\ LabelsOf(split.text) # <<>>) =>
        LET r == separate_tables(WithoutPreamble(split.text))
        IN  split.st = r.st /\ split.dfs = r.dfs

\* position of a name in a header without repeated names
Pos(h, x) == CHOOSE i \in 1..Len(h) : h[i] = x

\* C14: projection with drop set D keeps exactly the columns not in D, in
\* their original order, with the same rows in the same order; names of D
\* that are not columns are ignored, so a drop set of unknown names only
\* gives back the input table.
C14_Projection ==
    proj.st = "out" =>
        LET df == proj.df
            out == proj.out
        IN  /\ out.ok /\ out.named
            /\ Range(out.columns) = Range(df.columns) \ proj.cols
            /\ \A i, j \in 1..Len(out.columns) :
                  i < j => Pos(df.columns, out.columns[i])
                             < Pos(df.columns, out.columns[j])
            /\ Len(out.rows) = Len(df.rows)
            /\ \A r \in 1..Len(out.rows) :
                  /\ Len(out.rows[r]) = Len(out.columns)
                  /\ \A k \in 1..Len(out.columns) :
                        out.rows[r][k]
                          = df.rows[r][Pos(df.columns, out.columns[k])]
            /\ (proj.cols \cap Range(df.columns) = {}) => out = df

\* C14 witness: columns A, B, C with two rows, drop set {B, NotAColumn},
\* result with columns A, C
C14_DropBAndUnknown ==
    /\ proj.st = "out"
    /\ proj.df.columns = << <<"A">>, <<"B">>, <<"C">> >>
    /\ Len(proj.df.rows) = 2
    /\ proj.cols = {<<"B">>, <<"NotAColumn">>}
    /\ proj.out.columns = << <<"A">>, <<"C">> >>

\* an invocation on an empty destination has ended and no run action failed
CleanRunEnded ==
    /\ pc = "idle"
    /\ run >= 1
    /\ hist.fs0 = NoFiles
    /\ hist.kind \notin {"io", "parse", "status"}

\* C15: an invocation that starts on an empty destination and in which no
\* run action fails ends with done.txt present, whatever the pattern list.
C15_EndsWithDoneTxt == CleanRunEnded => Exists(fs, DoneTxt)

\* the part of C15 about pattern lists whose matches are all preprocessed
C15_DoneWhenPreprocessComplete ==
    (CleanRunEnded /\ complete("DataPreprocessing", cfg, fs)) => Exists(fs, DoneTxt)

\* positions of the label lines among the first n lines
LabelPos(text, n) == {i \in 1..n : StartsWithBracket(text[i])}

\* header line and rows of a table, as lines of cells
Content(df) == (IF df.named THEN <<df.columns>> ELSE <<>>) \o df.rows

\* C16: after a label line every line that is not a label line goes, in
\* input order, to the buffer of the most recent label and from there to
\* that label's table and no other, whatever the label text, the empty
\* label [] included.
C16_LinesReachTheirTable ==
    /\ (split.st = "scan" /\ LabelPos(split.text, split.i - 1) # {}) =>
          LET last == Max(LabelPos(split.text, split.i - 1))
          IN  split.fio = SubSeq(split.text, last + 1, split.i - 1)
    /\ split.st = "ok" =>
          /\ \A i \in LabelPos(split.text, Len(split.text)) :
                LET key == Strip(split.text[i])
                    b == NonBlank(BlockAfter(split.text, i))
                IN  (i = LastLabel(split.text, key) /\ b # <<>>) =>
                        \E k \in 1..Len(split.dfs) :
                            /\ split.dfs[k].key = key
                            /\ Content(split.dfs[k].df) = RowsOf(b)
          /\ \A k \in 1..Len(split.dfs) :
                Content(split.dfs[k].df)
                  = RowsOf(NonBlank(BlockAfter(split.text,
                                LastLabel(split.text, split.dfs[k].key))))

\* the part of C16 about labels with a text
C16_NamedLabelsKeepLines ==
    (\A i \in LabelPos(split.text, Len(split.text)) :
          Strip(split.text[i]) # <<>>) => C16_LinesReachTheirTable

\* extracts.txt is on disk with the text ExtractFiles.run writes
MarkerWritten ==
    Exists(fs, ExtractsTxt) /\ fs[ExtractsTxt].text = MarkerText

\* every table of member m is on disk, as separate_tables saves it
TablesOnDisk(m) ==
    LET r == separate_tables(m.text) IN
        /\ r.st = "ok"
        /\ \A k \in 1..Len(r.dfs) :
              /\ Exists(fs, TableFile(m, r.dfs[k].key))
              /\ fs[TableFile(m, r.dfs[k].key)].text = to_csv(r.dfs[k].df)

\* C17: when extracts.txt written by Extract is on disk, every .gz member
\* of the archive has been split and its table files are on disk; when
\* Extract failed at a member, extracts.txt is absent.
C17_MarkerAfterTables ==
    /\ MarkerWritten =>
          \A n \in 1..Len(cfg.archive) :
              cfg.archive[n].gz => TablesOnDisk(cfg.archive[n])
    /\ hist.failed = "ExtractFiles" => ~Exists(fs, ExtractsTxt)

\* C17 witness: extracts.txt was written for an archive of two .gz members
\* and a member that is not one
C17_MarkerForTwoMembers ==
    /\ MarkerWritten
    /\ status["ExtractFiles"] = "DONE"
    /\ Cardinality({n \in 1..Len(cfg.archive) : cfg.archive[n].gz}) = 2
    /\ \E n \in 1..Len(cfg.archive) : ~cfg.archive[n].gz

\* C17 witness of the failing case: Extract failed at the second member,
\* after the tables of the first were saved
C17_FailedAtSecondMember ==
    /\ hist.failed = "ExtractFiles"
    /\ hist.kind = "parse"
    /\ TablesOnDisk(cfg.archive[1])
    /\ ~Exists(fs, ExtractsTxt)

\* C18: within one invocation no run action is started twice, and a stage
\* that has failed or succeeded keeps that status until the invocation ends.
C18_AtMostOnce ==
    /\ [](\A i, j \in 1..Len(hist.started) :
              hist.started[i] = hist.started[j] => i = j)
    /\ [][\A t \in Range(Stages) :
              (run' = run /\ status[t] \in {"DONE", "FAILED"})
                  => status'[t] = status[t]]_vars

\* C18 witness: Preprocess failed in its run action and the invocation
\* ended with three run actions started
C18_FailedOnceRunOver ==
    /\ pc = "idle"
    /\ hist.failed = "DataPreprocessing"
    /\ hist.kind \in {"io", "parse"}
    /\ hist.started = <<"DownloadData", "ExtractFiles", "DataPreprocessing">>

\* Preprocess was the last run action to start, and it has returned
PreprocessReturned ==
    /\ status["DataPreprocessing"] = "DONE"
    /\ hist.started # <<>>
    /\ hist.started[Len(hist.started)] = "DataPreprocessing"

\* the files the patterns matched when Preprocess's run action started
MatchedAtStart ==
    UNION {rglob(cfg.prep_list[k], hist.fsB) : k \in 1..Len(cfg.prep_list)}

\* C19: when Preprocess's run action has returned, every file the patterns
\* matched has its one sibling {name}_preprocessed{ext}, holding the table
\* without the dropped columns; no other file was created, and every file
\* that was there before, the matched files included, is as it was.
C19_SiblingsOnly ==
    PreprocessReturned =>
        LET before == hist.fsB
            sib == {Preprocessed(f) : f \in MatchedAtStart}
        IN  /\ \A f \in MatchedAtStart :
                  /\ Exists(fs, Preprocessed(f))
                  /\ fs[Preprocessed(f)].text
                       = to_csv(drop(read_csv(before[f].text, "infer"),
                                     cfg.cols_fordrop))
            /\ DOMAIN fs = DOMAIN before \cup sib
            /\ \A p \in DOMAIN before \ sib : fs[p] = before[p]
            /\ \A f \in MatchedAtStart : fs[f] = before[f]

\* the part of C19 for runs in which no matched file is the sibling of
\* another matched file
C19_SiblingsOnlyWhenDisjoint ==
    (MatchedAtStart \cap {Preprocessed(f) : f \in MatchedAtStart} = {})
        => C19_SiblingsOnly

====
